---- MODULE Spec2Model ----
(***************************************************************************)
(* FramePerfect AI: frame sampling, per-frame analysis with retry/backoff, *)
(* selection and enhancement, modelled from the App component and the      *)
(* Gemini service.  Time is counted in ticks, TicksPerSecond to a second.  *)
(***************************************************************************)
EXTENDS Integers, Sequences, FiniteSets, TLC

VARIABLES
  apiKey,        \* process.env.API_KEY is set
  videoUrl,      \* "none" (null) | "blob" | "restored"
  video,         \* the <video> element: [duration, metadata (loadedmetadata has fired)]
  scanSettings,  \* [range, interval]
  isExtracting,
  scan,          \* the startExtraction invocation: its position and locals
  frames,        \* the frame store, in iteration order
  nextId,        \* the next value of crypto.randomUUID()
  calls,         \* analyzeFrameWithGemini calls, by frame id
  jobs,          \* enhancement invocations (single and batch), by start order
  resets,        \* number of New Scan resets so far
  libraryView,   \* "all" | "library"
  libraryFilter, \* "all" | "enhanced" | "original"
  filters,       \* [minQuality, shotType, activeTags]
  projectName,
  isExporting,
  archive,       \* the zip of the latest handleExport that got past its check
  exportNotice,  \* the latest alert of handleExport
  persisted,     \* the record under PROJECT_KEY in IndexedDB
  load           \* the initLoad of this mount: its position and what it read

viewVars == <<libraryView, libraryFilter, filters>>
exportVars == <<projectName, isExporting, archive, exportNotice>>
persistVars == <<persisted, load>>

vars == <<apiKey, videoUrl, video, scanSettings, isExtracting, scan, frames,
          nextId, calls, jobs, resets, viewVars, exportVars, persistVars>>

-----------------------------------------------------------------------------
(* Bounds *)

TicksPerSecond == 8
MaxDurationSec == 52      \* longest video of the sampling specification
MaxAnalysisDurationSec == 4  \* longest video of the analysis specification
MaxMainDurationSec == 2   \* longest video of the full specification
MaxFrames == 3            \* store size at which Save Copy is no longer taken
MaxJobs == 2              \* enhancement invocations per run
MaxBatchDurationSec == 7  \* longest video of the batch specification
MaxBatchJobs == 1         \* enhancement invocations of the batch specification
MaxResets == 1            \* New Scan resets per run

(* Program constants *)

maxFrames == 50
DefaultRetries == 3
DefaultDelay == 2000

-----------------------------------------------------------------------------
(* Values *)

Max(a, b) == IF a > b THEN a ELSE b

UndefStr == "undefined"
UndefNum == -1
UndefList == <<"undefined">>

FAIR == "Fair"
GOOD == "Good"
EXCELLENT == "Excellent"
PENDING == "Pending"

POSE == "Pose"
CANDID == "Candid"
UNKNOWN == "Unknown"

RESTORE == "Restore (Standard)"
CINEMATIC == "Cinematic Lighting"
EnhancementTypes == {RESTORE, CINEMATIC}
MainTypes == {CINEMATIC}

Ranges == {"full", "first_half", "second_half", "q1", "q2", "q3", "q4"}
Intervals == {1, 2, 3, 5}

NoImage == [src |-> "none", n |-> 0]
NullAnalysis == [null |-> TRUE]

\* canvas.toDataURL of the frame shown at time t
CapturedImage(t) == [src |-> "video", n |-> t]

\* the image part of an enhancement response for the frame id
EnhancedImage(id) == [src |-> "ai", n |-> id]

\* useState<FilterState>, and what setFilters resets it to
DefaultFilters == [minQuality |-> "All", shotType |-> "All", activeTags |-> <<>>]

DefaultProjectName == "My Project"

NoNotice == "none"

\* db.get finds nothing under PROJECT_KEY
NoProject == [stored |-> FALSE]

\* the record saveProject puts
Project(fs) == [stored |-> TRUE, frames |-> fs]

\* initLoad of the first mount is awaiting loadProject
LoadPending == [pc |-> "pending", frames |-> <<>>, mount |-> 1]

\* no handleExport has built a zip yet
NoArchive == [safeName |-> "", files |-> <<>>, downloaded |-> FALSE]

-----------------------------------------------------------------------------
(* Frame store *)

\* the effect on [frames]: saveProject(frames) when the new store is not empty
SaveEffect == persisted' = IF frames' # <<>> THEN Project(frames') ELSE persisted


NewFrame(id, t) ==
  [id |-> id, timestamp |-> t, imageUrl |-> CapturedImage(t),
   analysis |-> NullAnalysis, isSelected |-> FALSE, isProcessing |-> TRUE,
   isEnhancing |-> FALSE, enhancedUrl |-> NoImage,
   appliedEnhancements |-> <<>>]

MapFrame_ByPosition(fs, id, patched) ==
  [i \in DOMAIN fs |-> IF i = id THEN patched[i] ELSE fs[i]]

\* curr.map(f => f.id === id ? patch(f) : f), patched[i] being patch(fs[i])
MapFrame(fs, id, patched) ==
  [i \in DOMAIN fs |-> IF fs[i].id = id THEN patched[i] ELSE fs[i]]

FrameIds(fs) == {fs[i].id : i \in DOMAIN fs}

FrameOf(fs, id) == fs[CHOOSE i \in DOMAIN fs : fs[i].id = id]

-----------------------------------------------------------------------------
(* Sampling window *)

StartTime(range, d) ==
  CASE range = "second_half" -> d \div 2
    [] range = "q2" -> d \div 4
    [] range = "q3" -> d \div 2
    [] range = "q4" -> (3 * d) \div 4
    [] OTHER -> 0

EndTime(range, d) ==
  CASE range = "first_half" -> d \div 2
    [] range = "q1" -> d \div 4
    [] range = "q2" -> d \div 2
    [] range = "q3" -> (3 * d) \div 4
    [] OTHER -> d

NeverRun == "never"

IdleScan == [pc |-> "idle", settings |-> [range |-> NeverRun, interval |-> 0],
             duration |-> 0, startTime |-> 0, endTime |-> 0, currentTime |-> 0,
             interval |-> 0, count |-> 0, added |-> <<>>]

LoopContinues_Inclusive(s) == s.currentTime <= s.endTime /\ s.count < maxFrames

\* while (currentTime < endTime && count < maxFrames)
LoopContinues(s) == s.currentTime < s.endTime /\ s.count < maxFrames

-----------------------------------------------------------------------------
(* The Gemini service: one attempt, and callWithRetry around it *)

\* what a thrown error looks like to the catch clauses (0: property absent)
Err(status, code, msg429) == [status |-> status, code |-> code, msg429 |-> msg429]

NoError == Err(0, 0, FALSE)
RateLimited == Err(429, 0, FALSE)
Overloaded == Err(503, 0, FALSE)
NetworkError == Err(0, 0, FALSE)

Errors == {RateLimited, Overloaded, Err(0, 429, FALSE), Err(0, 0, TRUE),
           Err(0, 503, FALSE), NetworkError}

\* a response text that JSON.parse accepts
Json(q) ==
  [quality |-> q, qualityReason |-> "Sharp focus", people |-> <<"Dad">>,
   shotType |-> CANDID, tags |-> <<"Beach">>, compositionScore |-> 7,
   technicalAdvice |-> "Fix contrast", subjectId |-> "Man_In_Red_Hat"]

SparseJson ==
  [quality |-> GOOD, qualityReason |-> "Usable", people |-> UndefList,
   shotType |-> POSE, tags |-> UndefList, compositionScore |-> 0,
   technicalAdvice |-> UndefStr, subjectId |-> UndefStr]

NoJson == Json(UndefStr)

Outcome(kind, json, error) == [kind |-> kind, json |-> json, error |-> error]

\* the behaviours of ai.models.generateContent for an analysis request
AnalysisOutcomes ==
  {Outcome("text", Json(q), NoError) : q \in {FAIR, GOOD, EXCELLENT, UndefStr}}
    \cup {Outcome("text", SparseJson, NoError),
          Outcome("empty", NoJson, NoError),
          Outcome("garbled", NoJson, NoError)}
    \cup {Outcome("error", NoJson, e) : e \in Errors}

\* one success of each kind and one failure, where retries are not the subject
MainAnalysisOutcomes ==
  {Outcome("text", Json(GOOD), NoError), Outcome("text", Json(EXCELLENT), NoError),
   Outcome("error", NoJson, NetworkError)}

\* a verdict that selects the frame, where the verdict is not the subject
BatchAnalysisOutcomes == {Outcome("text", Json(EXCELLENT), NoError)}

NoKeyOutcome == Outcome("nokey", NoJson, NoError)

\* the object literal built from the parsed response
ParseAnalysis(json) ==
  [quality |-> json.quality,
   qualityReason |-> json.qualityReason,
   people |-> IF json.people = UndefList THEN <<>> ELSE json.people,
   shotType |-> json.shotType,
   tags |-> IF json.tags = UndefList THEN <<>> ELSE json.tags,
   compositionScore |->
     IF json.compositionScore \in {UndefNum, 0} THEN 5 ELSE json.compositionScore,
   technicalAdvice |->
     IF json.technicalAdvice \in {UndefStr, ""} THEN "No advice available"
     ELSE json.technicalAdvice,
   subjectId |-> json.subjectId]

FallbackAnalysis ==
  [quality |-> FAIR, qualityReason |-> "AI Analysis Failed", people |-> <<>>,
   shotType |-> UNKNOWN, tags |-> <<>>, compositionScore |-> 0,
   technicalAdvice |-> "Retry analysis", subjectId |-> UndefStr]

Returned(v) == [threw |-> FALSE, error |-> NoError, value |-> v]
Threw(e, none) == [threw |-> TRUE, error |-> e, value |-> none]

AnalyzeAttempt_RethrowAll(o) ==
  IF o.kind = "text" THEN Returned(ParseAnalysis(o.json))
  ELSE IF o.kind = "error" THEN Threw(o.error, NullAnalysis)
  ELSE Returned(FallbackAnalysis)

\* the arrow function analyzeFrameWithGemini hands to callWithRetry
AnalyzeAttempt(o) ==
  IF o.kind = "text" THEN Returned(ParseAnalysis(o.json))
  ELSE IF o.kind = "error" /\ o.error.status = 429 THEN Threw(o.error, NullAnalysis)
  ELSE Returned(FallbackAnalysis)

isRateLimit(e) == e.status = 429 \/ e.code = 429 \/ e.msg429
isServerOverload(e) == e.status = 503 \/ e.code = 503

ShouldRetry(e, retries) == (isRateLimit(e) \/ isServerOverload(e)) /\ retries > 0

NewCall(none) ==
  [pc |-> "attempt", retries |-> DefaultRetries, delay |-> DefaultDelay,
   log |-> <<>>, waits |-> <<>>, result |-> [kind |-> "pending", value |-> none]]

\* callWithRetry when the attempt o it awaits has settled as r
callWithRetry(c, o, r, none) ==
  LET c1 == [c EXCEPT !.log = Append(@, o)] IN
  IF ~r.threw
  THEN [c1 EXCEPT !.pc = "done", !.result = [kind |-> "value", value |-> r.value]]
  ELSE IF ShouldRetry(r.error, c.retries)
  THEN [c1 EXCEPT !.pc = "backoff", !.waits = Append(@, c.delay)]
  ELSE [c1 EXCEPT !.pc = "done", !.result = [kind |-> "rejected", value |-> none]]

Recurse_NoDoubling(c) == [c EXCEPT !.pc = "attempt", !.retries = @ - 1]

\* the setTimeout of callWithRetry fires and the recursive call starts
Recurse(c) == [c EXCEPT !.pc = "attempt", !.retries = @ - 1, !.delay = @ * 2]

-----------------------------------------------------------------------------
(* processFrameAI: what it writes once analyzeFrameWithGemini has settled *)

AnalysisPatch_KeepSelected(f, result) ==
  [f EXCEPT !.analysis = result, !.isProcessing = FALSE,
            !.isSelected = (@ \/ result.quality = EXCELLENT)]

AnalysisPatch(f, result) ==
  [f EXCEPT !.analysis = result, !.isProcessing = FALSE,
            !.isSelected = (result.quality = EXCELLENT)]

FailedPatch_Noop(f) == f

FailedPatch(f) == [f EXCEPT !.isProcessing = FALSE]

processFrameAI(fs, id, c) ==
  IF c.pc # "done" THEN fs
  ELSE IF c.result.kind = "value"
  THEN MapFrame(fs, id, [i \in DOMAIN fs |-> AnalysisPatch(fs[i], c.result.value)])
  ELSE MapFrame(fs, id, [i \in DOMAIN fs |-> FailedPatch(fs[i])])

-----------------------------------------------------------------------------
(* Initial state: the App component after its first render *)

InitApp ==
  /\ apiKey \in BOOLEAN
  /\ videoUrl = "none"
  /\ video = [duration |-> 0, metadata |-> FALSE]
  /\ scanSettings = [range |-> "full", interval |-> 3]
  /\ isExtracting = FALSE
  /\ scan = IdleScan
  /\ frames = <<>>
  /\ nextId = 1
  /\ calls = [id \in {} |-> NewCall(NullAnalysis)]
  /\ jobs = <<>>
  /\ resets = 0
  /\ libraryView = "all"
  /\ libraryFilter = "all"
  /\ filters = DefaultFilters
  /\ projectName = DefaultProjectName
  /\ isExporting = FALSE
  /\ archive = NoArchive
  /\ exportNotice = NoNotice
  /\ load = LoadPending

\* the first visit: nothing is stored yet
Init == InitApp /\ persisted = NoProject

-----------------------------------------------------------------------------
(* Video file and scan settings *)

\* lengths up to maxSec seconds whose quarters are whole ticks
Durations(maxSec) == {4 * q : q \in 0..((maxSec * TicksPerSecond) \div 4)}

\* the user picks a video file whose length is one of D
HandleFileChange(D) ==
  /\ videoUrl = "none"
  /\ \E d \in D : video' = [duration |-> d, metadata |-> FALSE]
  /\ videoUrl' = "blob"
  /\ frames' = <<>>
  /\ filters' = DefaultFilters
  /\ persisted' = NoProject
  /\ UNCHANGED <<load, libraryView, libraryFilter, exportVars, apiKey, scanSettings,
                 isExtracting, scan, nextId, calls, jobs, resets>>

ScanControlsShown == videoUrl = "blob" /\ ~isExtracting /\ frames = <<>>

SetScanSettings ==
  /\ ScanControlsShown
  /\ \/ \E r \in Ranges \ {scanSettings.range} :
          scanSettings' = [scanSettings EXCEPT !.range = r]
     \/ \E i \in Intervals \ {scanSettings.interval} :
          scanSettings' = [scanSettings EXCEPT !.interval = i]
  /\ UNCHANGED <<persistVars, viewVars, exportVars, apiKey, videoUrl, video, isExtracting, scan, frames, nextId,
                 calls, jobs, resets>>

-----------------------------------------------------------------------------
(* startExtraction *)

\* from "const duration = video.duration" to the first test of the loop
BeginSampling(settings, d) ==
  [pc |-> "seeking", settings |-> settings, duration |-> d,
   startTime |-> StartTime(settings.range, d),
   endTime |-> EndTime(settings.range, d),
   currentTime |-> StartTime(settings.range, d),
   interval |-> Max(1, settings.interval) * TicksPerSecond, count |-> 0,
   added |-> <<>>]

\* the loop test: seek again, or setIsExtracting(false)
AtLoopTest(s) == IF LoopContinues(s) THEN s ELSE [s EXCEPT !.pc = "idle"]

\* readyState is at least 2 only once the metadata is there; with the
\* metadata there it may still be below 2
StartExtraction ==
  /\ ScanControlsShown
  /\ scan.pc = "idle"
  /\ \E ctxOk \in BOOLEAN, haveCurrentData \in BOOLEAN :
       IF ~ctxOk
       THEN /\ isExtracting' = TRUE
            /\ scan' = [IdleScan EXCEPT !.pc = "returned"]
       ELSE IF ~(video.metadata /\ haveCurrentData)
       THEN /\ isExtracting' = TRUE
            /\ scan' = [IdleScan EXCEPT !.pc = "waitMeta"]
       ELSE LET s == AtLoopTest(BeginSampling(scanSettings, video.duration)) IN
            /\ scan' = s
            /\ isExtracting' = (s.pc = "seeking")
  /\ UNCHANGED <<persistVars, viewVars, exportVars, apiKey, videoUrl, video, scanSettings, frames, nextId, calls,
                 jobs, resets>>

\* the video element fires loadedmetadata
VideoLoadedMetadata ==
  /\ videoUrl = "blob"
  /\ ~video.metadata
  /\ video' = [video EXCEPT !.metadata = TRUE]
  /\ IF scan.pc = "waitMeta"
     THEN LET s == AtLoopTest(BeginSampling(scanSettings, video.duration)) IN
          /\ scan' = s
          /\ isExtracting' = (s.pc = "seeking")
     ELSE UNCHANGED <<scan, isExtracting>>
  /\ UNCHANGED <<persistVars, viewVars, exportVars, apiKey, videoUrl, scanSettings, frames, nextId, calls, jobs, resets>>

SeekCompleted_AwaitsAnalysis ==
  /\ scan.pc = "seeking"
  /\ \A c \in DOMAIN calls : calls[c].pc = "done"
  /\ LET id == nextId
         s == AtLoopTest([scan EXCEPT !.currentTime = @ + scan.interval,
                                      !.count = @ + 1,
                                      !.added = Append(@, id)])
     IN /\ frames' = Append(frames, NewFrame(id, scan.currentTime))
        /\ calls' = (id :> NewCall(NullAnalysis)) @@ calls
        /\ nextId' = nextId + 1
        /\ scan' = s
        /\ isExtracting' = (s.pc = "seeking")
  /\ SaveEffect /\ UNCHANGED <<viewVars, exportVars, load, apiKey, videoUrl, video, scanSettings, jobs, resets>>

\* the seek completes: one pass of the loop body and the next loop test
SeekCompleted ==
  /\ scan.pc = "seeking"
  /\ LET id == nextId
         s == AtLoopTest([scan EXCEPT !.currentTime = @ + scan.interval,
                                      !.count = @ + 1,
                                      !.added = Append(@, id)])
     IN /\ frames' = Append(frames, NewFrame(id, scan.currentTime))
        /\ calls' = (id :> NewCall(NullAnalysis)) @@ calls
        /\ nextId' = nextId + 1
        /\ scan' = s
        /\ isExtracting' = (s.pc = "seeking")
  /\ SaveEffect /\ UNCHANGED <<viewVars, exportVars, load, apiKey, videoUrl, video, scanSettings, jobs, resets>>

-----------------------------------------------------------------------------
(* The analysis call of a frame *)

\* an attempt of the call for frame id settles as o
AnalysisSettlesWith(id, o) ==
  LET c == callWithRetry(calls[id], o, AnalyzeAttempt(o), NullAnalysis) IN
  /\ calls[id].pc = "attempt"
  /\ calls' = [calls EXCEPT ![id] = c]
  /\ frames' = processFrameAI(frames, id, c)
  /\ SaveEffect /\ UNCHANGED <<viewVars, exportVars, load, apiKey, videoUrl, video, scanSettings, isExtracting, scan,
                 nextId, jobs, resets>>

\* an attempt settles in one of the ways O the capability behaves
AnalysisSettles(O) ==
  \E id \in DOMAIN calls :
    \E o \in (IF apiKey THEN O ELSE {NoKeyOutcome}) : AnalysisSettlesWith(id, o)

BackoffElapsed ==
  \E id \in DOMAIN calls :
    /\ calls[id].pc = "backoff"
    /\ calls' = [calls EXCEPT ![id] = Recurse(@)]
    /\ UNCHANGED <<persistVars, viewVars, exportVars, apiKey, videoUrl, video, scanSettings, isExtracting, scan,
                   frames, nextId, jobs, resets>>

-----------------------------------------------------------------------------
(* Selection *)

TogglePatch(f) == [f EXCEPT !.isSelected = ~@]

toggleFrameSelection ==
  \E id \in FrameIds(frames) :
    /\ frames' = MapFrame(frames, id, [i \in DOMAIN frames |-> TogglePatch(frames[i])])
    /\ SaveEffect /\ UNCHANGED <<viewVars, exportVars, load, apiKey, videoUrl, video, scanSettings, isExtracting, scan,
                   nextId, calls, jobs, resets>>

-----------------------------------------------------------------------------
(* New Scan *)

NewScan ==
  /\ videoUrl # "none"
  /\ ~isExtracting
  /\ frames # <<>> \/ videoUrl = "restored"
  /\ resets < MaxResets
  /\ frames' = <<>>
  /\ resets' = resets + 1
  /\ videoUrl' = IF videoUrl = "restored" THEN "none" ELSE videoUrl
  /\ filters' = DefaultFilters
  /\ projectName' = IF videoUrl = "restored" THEN DefaultProjectName ELSE projectName
  /\ persisted' = NoProject
  /\ UNCHANGED <<load, libraryView, libraryFilter, isExporting, archive, exportNotice, apiKey, video,
                 scanSettings, isExtracting, scan, nextId, calls, jobs>>

-----------------------------------------------------------------------------
(* Enhancement: the service call *)

\* the behaviours of ai.models.generateContent for an enhancement request
EnhanceOutcomes ==
  {Outcome("image", NoJson, NoError), Outcome("noimage", NoJson, NoError)}
    \cup {Outcome("error", NoJson, e) : e \in Errors}

\* the outcomes that end the call with its first attempt
BatchEnhanceOutcomes ==
  {Outcome("image", NoJson, NoError), Outcome("noimage", NoJson, NoError),
   Outcome("error", NoJson, Overloaded)}

MainEnhanceOutcomes ==
  {Outcome("image", NoJson, NoError), Outcome("noimage", NoJson, NoError)}

\* the arrow function enhanceFrameWithGemini hands to callWithRetry;
\* NoImage stands for its null
EnhanceAttempt(o, id) ==
  IF o.kind = "image" THEN Returned(EnhancedImage(id))
  ELSE IF o.kind = "error" /\ o.error.status = 429 THEN Threw(o.error, NoImage)
  ELSE Returned(NoImage)

-----------------------------------------------------------------------------
(* Enhancement: handleEnhanceSelection, handleBatchEnhance, handleSaveVersion *)

ForceExcellent(a) == IF a = NullAnalysis THEN a ELSE [a EXCEPT !.quality = EXCELLENT]

\* the update handleEnhanceSelection makes once the call has returned v
SinglePatch_NoStyle(f, v, types) ==
  [f EXCEPT !.isEnhancing = FALSE, !.enhancedUrl = v, !.isSelected = TRUE,
            !.analysis = ForceExcellent(@)]
SinglePatch(f, v, types) ==
  [f EXCEPT !.isEnhancing = FALSE, !.enhancedUrl = v, !.isSelected = TRUE,
            !.appliedEnhancements = @ \o types,
            !.analysis = ForceExcellent(@)]

\* the update handleBatchEnhance makes once the call has returned v
BatchPatch(f, v, types) ==
  [f EXCEPT !.isEnhancing = FALSE, !.enhancedUrl = v,
            !.analysis = ForceExcellent(@),
            !.appliedEnhancements = @ \o types]

\* the update of either catch clause
EnhanceFailedPatch(f) == [f EXCEPT !.isEnhancing = FALSE]

StartEnhancingPatch(f) == [f EXCEPT !.isEnhancing = TRUE]

\* what the handlers read of the frame objects they were called with
Snapshot(f) ==
  [id |-> f.id, imageUrl |-> f.imageUrl,
   advice |-> IF f.analysis = NullAnalysis THEN UndefStr
              ELSE f.analysis.technicalAdvice]

Snapshots(fs) == [i \in DOMAIN fs |-> Snapshot(fs[i])]

\* frame.analysis is not null
HasAnalysis(t) == t.advice # UndefStr

NextTarget_NoSkip(targets, i) == i

\* for (const frame of selectedFrames) { if (!frame.analysis) continue; ...
\* the position of the next target at or after i that gets a call
NextTarget(targets, i) ==
  LET later == {k \in i..Len(targets) : HasAnalysis(targets[k])} IN
  IF later = {} THEN Len(targets) + 1
  ELSE CHOOSE k \in later : \A m \in later : k <= m

\* the call slot of an invocation that has returned
NoCall == [NewCall(NoImage) EXCEPT !.pc = "done"]

JobRunning(job) == job.idx <= Len(job.targets)

NewJob(kind, targets, types, idx) ==
  [kind |-> kind, targets |-> targets, types |-> types, idx |-> idx,
   issued |-> IF idx <= Len(targets) THEN <<targets[idx].id>> ELSE <<>>,
   call |-> IF idx <= Len(targets) THEN NewCall(NoImage) ELSE NoCall]

IsSelected(f) == f.isSelected

\* the modal's Enhance button for frames[i]: selectedAdvice is filled from the
\* advice of the frame shown, and kept when onNext/onPrev moves the modal to
\* a placeholder of the running scan
EnhanceButtonEnabled(i) ==
  /\ ~frames[i].isEnhancing
  /\ \/ frames[i].analysis # NullAnalysis
     \/ /\ isExtracting
        /\ \E k \in DOMAIN frames : frames[k].analysis # NullAnalysis

handleEnhanceSelection(T) ==
  /\ Len(jobs) < MaxJobs
  /\ \E i \in DOMAIN frames, type \in T :
       /\ EnhanceButtonEnabled(i)
       /\ frames' = MapFrame(frames, frames[i].id,
                             [k \in DOMAIN frames |-> StartEnhancingPatch(frames[k])])
       /\ jobs' = Append(jobs, NewJob("single", <<Snapshot(frames[i])>>, <<type>>, 1))
  /\ SaveEffect /\ UNCHANGED <<viewVars, exportVars, load, apiKey, videoUrl, video, scanSettings, isExtracting, scan,
                 nextId, calls, resets>>

handleBatchEnhance(T) ==
  /\ Len(jobs) < MaxJobs
  /\ LET selectedFrames == SelectSeq(frames, IsSelected)
         targetIds == FrameIds(selectedFrames)
     IN /\ selectedFrames # <<>>
        /\ \E type \in T :
             jobs' = Append(jobs, NewJob("batch", Snapshots(selectedFrames), <<type>>,
                                         NextTarget(Snapshots(selectedFrames), 1)))
        /\ frames' = [i \in DOMAIN frames |->
                        IF frames[i].id \in targetIds
                        THEN StartEnhancingPatch(frames[i]) ELSE frames[i]]
  /\ SaveEffect /\ UNCHANGED <<viewVars, exportVars, load, apiKey, videoUrl, video, scanSettings, isExtracting, scan,
                 nextId, calls, resets>>

EnhanceWrite_FromSnapshot(fs, job, c) ==
  LET id == job.targets[job.idx].id
      snapshot == job.targets[job.idx] IN
  IF c.pc # "done" THEN fs
  ELSE IF c.result.kind = "rejected"
  THEN MapFrame(fs, id, [i \in DOMAIN fs |-> EnhanceFailedPatch(snapshot)])
  ELSE IF job.kind = "single"
  THEN MapFrame(fs, id, [i \in DOMAIN fs |->
                           SinglePatch(snapshot, c.result.value, job.types)])
  ELSE MapFrame(fs, id, [i \in DOMAIN fs |->
                           BatchPatch(snapshot, c.result.value, job.types)])

\* the store after the call of job for its current target has settled as c
EnhanceWrite(fs, job, c) ==
  LET id == job.targets[job.idx].id IN
  IF c.pc # "done" THEN fs
  ELSE IF c.result.kind = "rejected"
  THEN MapFrame(fs, id, [i \in DOMAIN fs |-> EnhanceFailedPatch(fs[i])])
  ELSE IF job.kind = "single"
  THEN MapFrame(fs, id, [i \in DOMAIN fs |->
                           SinglePatch(fs[i], c.result.value, job.types)])
  ELSE MapFrame(fs, id, [i \in DOMAIN fs |->
                           BatchPatch(fs[i], c.result.value, job.types)])

\* the job after that: a batch goes on to its next target and issues its call
AfterCall(job, c) ==
  IF c.pc # "done" THEN [job EXCEPT !.call = c]
  ELSE LET next == IF job.kind = "single" THEN job.idx + 1
                   ELSE NextTarget(job.targets, job.idx + 1)
       IN IF next <= Len(job.targets)
          THEN [job EXCEPT !.idx = next, !.call = NewCall(NoImage),
                           !.issued = Append(@, job.targets[next].id)]
          ELSE [job EXCEPT !.idx = next, !.call = NoCall]

\* an attempt of the call job j has in flight settles as o
EnhanceSettlesWith(j, o) ==
  LET job == jobs[j]
      id == job.targets[job.idx].id
      c == callWithRetry(job.call, o, EnhanceAttempt(o, id), NoImage)
  IN /\ JobRunning(job)
     /\ job.call.pc = "attempt"
     /\ frames' = EnhanceWrite(frames, job, c)
     /\ jobs' = [jobs EXCEPT ![j] = AfterCall(job, c)]
     /\ SaveEffect /\ UNCHANGED <<viewVars, exportVars, load, apiKey, videoUrl, video, scanSettings, isExtracting, scan,
                    nextId, calls, resets>>

EnhanceSettles(O) ==
  \E j \in DOMAIN jobs :
    \E o \in (IF apiKey THEN O ELSE {NoKeyOutcome}) : EnhanceSettlesWith(j, o)

EnhanceBackoffElapsed ==
  \E j \in DOMAIN jobs :
    /\ JobRunning(jobs[j])
    /\ jobs[j].call.pc = "backoff"
    /\ jobs' = [jobs EXCEPT ![j].call = Recurse(@)]
    /\ UNCHANGED <<persistVars, viewVars, exportVars, apiKey, videoUrl, video, scanSettings, isExtracting, scan,
                   frames, nextId, calls, resets>>

SavedVersion_KeepEnhanced(frame, id) ==
  [id |-> id, timestamp |-> frame.timestamp, imageUrl |-> frame.enhancedUrl,
   analysis |-> ForceExcellent(frame.analysis), isSelected |-> TRUE,
   isProcessing |-> FALSE, isEnhancing |-> FALSE,
   appliedEnhancements |-> frame.appliedEnhancements,
   enhancedUrl |-> frame.enhancedUrl]

SavedVersion(frame, id) ==
  [id |-> id, timestamp |-> frame.timestamp, imageUrl |-> frame.enhancedUrl,
   analysis |-> ForceExcellent(frame.analysis), isSelected |-> TRUE,
   isProcessing |-> FALSE, isEnhancing |-> FALSE,
   appliedEnhancements |-> frame.appliedEnhancements, enhancedUrl |-> NoImage]

\* the store after handleSaveVersion(fs[i]), id being the new UUID
SaveVersion(fs, i, id) ==
  IF fs[i].enhancedUrl = NoImage THEN fs
  ELSE <<SavedVersion(fs[i], id)>> \o fs

\* Save Copy is shown for a frame that has an enhancedUrl
handleSaveVersion ==
  /\ Len(frames) < MaxFrames
  /\ \E i \in DOMAIN frames :
       /\ frames[i].enhancedUrl # NoImage
       /\ frames' = SaveVersion(frames, i, nextId)
  /\ nextId' = nextId + 1
  /\ SaveEffect /\ UNCHANGED <<viewVars, exportVars, load, apiKey, videoUrl, video, scanSettings, isExtracting, scan,
                 calls, jobs, resets>>

-----------------------------------------------------------------------------
(* Specifications *)

Next ==
  \/ HandleFileChange({0, MaxMainDurationSec * TicksPerSecond})
  \/ VideoLoadedMetadata
  \/ StartExtraction
  \/ SeekCompleted
  \/ AnalysisSettles(MainAnalysisOutcomes)
  \/ toggleFrameSelection
  \/ handleEnhanceSelection(MainTypes)
  \/ handleBatchEnhance(MainTypes)
  \/ EnhanceSettles(MainEnhanceOutcomes)
  \/ handleSaveVersion
  \/ NewScan

Spec == Init /\ [][Next]_vars

\* sampling, analysis and selection, over every behaviour of the capability
NextAnalysis ==
  \/ HandleFileChange({0, MaxAnalysisDurationSec * TicksPerSecond})
  \/ VideoLoadedMetadata
  \/ StartExtraction
  \/ SeekCompleted
  \/ AnalysisSettles(AnalysisOutcomes)
  \/ BackoffElapsed
  \/ toggleFrameSelection

SpecAnalysis == Init /\ [][NextAnalysis]_vars

\* sampling alone, over every range, interval and video length
NextScan ==
  \/ HandleFileChange(Durations(MaxDurationSec))
  \/ SetScanSettings
  \/ VideoLoadedMetadata
  \/ StartExtraction
  \/ SeekCompleted

SpecScan == Init /\ [][NextScan]_vars

\* batches over the frames of a three-frame scan, with the API key set
NextBatch ==
  \/ HandleFileChange({0, MaxBatchDurationSec * TicksPerSecond})
  \/ VideoLoadedMetadata
  \/ StartExtraction
  \/ SeekCompleted
  \/ AnalysisSettles(BatchAnalysisOutcomes)
  \/ toggleFrameSelection
  \/ Len(jobs) < MaxBatchJobs /\ handleBatchEnhance(MainTypes)
  \/ EnhanceSettles(BatchEnhanceOutcomes)

InitKeyed == Init /\ apiKey

SpecBatch == InitKeyed /\ [][NextBatch]_vars

\* single-frame enhancement and Save Copy on the frames of a two-frame scan
NextSave ==
  \/ HandleFileChange({0, MaxAnalysisDurationSec * TicksPerSecond})
  \/ VideoLoadedMetadata
  \/ StartExtraction
  \/ SeekCompleted
  \/ AnalysisSettles(MainAnalysisOutcomes)
  \/ toggleFrameSelection
  \/ handleEnhanceSelection(MainTypes)
  \/ EnhanceSettles(MainEnhanceOutcomes)
  \/ handleSaveVersion

SpecSave == Init /\ [][NextSave]_vars

\* New Scan while analysis and enhancement calls are in flight, and the scans
\* after it
NextReset ==
  \/ HandleFileChange({MaxMainDurationSec * TicksPerSecond})
  \/ VideoLoadedMetadata
  \/ StartExtraction
  \/ SeekCompleted
  \/ AnalysisSettles(MainAnalysisOutcomes)
  \/ handleEnhanceSelection(MainTypes)
  \/ handleBatchEnhance(MainTypes)
  \/ EnhanceSettles(MainEnhanceOutcomes)
  \/ NewScan

SpecReset == InitKeyed /\ [][NextReset]_vars

\* the frames whose analysis request, and those whose enhancement request,
\* the network never answers
StalledAnalysis == {2}
StalledEnhancement == {1}

AnalysisSettlesUnstalled ==
  \E id \in DOMAIN calls \ StalledAnalysis :
    \E o \in BatchAnalysisOutcomes : AnalysisSettlesWith(id, o)

EnhanceSettlesUnstalled ==
  \E j \in DOMAIN jobs :
    /\ JobRunning(jobs[j])
    /\ jobs[j].targets[jobs[j].idx].id \notin StalledEnhancement
    /\ \E o \in BatchEnhanceOutcomes : EnhanceSettlesWith(j, o)

\* a three-frame scan and batches with stalled requests; every seek
\* completes, the metadata arrives and every other request is answered
NextStall ==
  \/ HandleFileChange({MaxBatchDurationSec * TicksPerSecond})
  \/ VideoLoadedMetadata
  \/ StartExtraction
  \/ SeekCompleted
  \/ AnalysisSettlesUnstalled
  \/ toggleFrameSelection
  \/ Len(jobs) < MaxBatchJobs /\ handleBatchEnhance(MainTypes)
  \/ EnhanceSettlesUnstalled

SpecStall ==
  /\ InitKeyed
  /\ [][NextStall]_vars
  /\ WF_vars(VideoLoadedMetadata)
  /\ WF_vars(SeekCompleted)
  /\ WF_vars(AnalysisSettlesUnstalled)
  /\ WF_vars(EnhanceSettlesUnstalled)

-----------------------------------------------------------------------------
(* Vocabulary of the properties *)

Last(q) == q[Len(q)]

\* the capability's failure and success kinds, as the specification names them
IsRateLimited(o) == o.kind = "error" /\ o.error.status = 429
IsOverloaded(o) == o.kind = "error" /\ o.error.status = 503
IsTransient(o) == IsRateLimited(o) \/ IsOverloaded(o)
IsVerdict(o) == o.kind = "text"
MissesQuality(o) == o.kind = "text" /\ o.json.quality = UndefStr
IsNonTransientFailure(o) ==
  \/ o.kind \in {"nokey", "empty", "garbled"}
  \/ o.kind = "error" /\ o.error.status # 429 /\ ~isServerOverload(o.error)

\* the k-th backoff wait of the documented schedule: 2s, 4s, 8s
Backoff(k) == 2000 * 2^(k - 1)

DegradedFallback ==
  [quality |-> "Fair", qualityReason |-> "AI Analysis Failed", people |-> <<>>,
   shotType |-> "Unknown", tags |-> <<>>, compositionScore |-> 0,
   technicalAdvice |-> "Retry analysis", subjectId |-> UndefStr]

\* in this step the analysis call of frame id completes
AnalysisCompletes(id) ==
  /\ id \in DOMAIN calls
  /\ calls[id].pc = "attempt"
  /\ calls'[id].pc = "done"

InStore(id) == id \in FrameIds(frames)

-----------------------------------------------------------------------------
(* C1: a call whose capability is rate limited (status 429) k times, k <= 3,
   and then answers returns that answer's verdict after exactly k backoff
   waits of 2000 * 2^i ms, i = 0..k-1; and no call makes more than 4
   attempts. *)
C1_RetryLaw ==
  \A id \in DOMAIN calls :
    LET c == calls[id]
        n == Len(c.log)
    IN /\ n <= 4
       /\ ( /\ n >= 1
            /\ \A i \in 1..(n - 1) : IsRateLimited(c.log[i])
            /\ IsVerdict(c.log[n]) )
          => /\ c.pc = "done"
             /\ c.result.kind = "value"
             /\ c.result.value.quality = c.log[n].json.quality
             /\ c.result.value.qualityReason = c.log[n].json.qualityReason
             /\ c.result.value.shotType = c.log[n].json.shotType
             /\ Len(c.waits) = n - 1
             /\ \A i \in 1..(n - 1) : c.waits[i] = Backoff(i)

C1_Witness ==
  \E id \in DOMAIN calls :
    /\ calls[id].pc = "done"
    /\ Len(calls[id].log) = 4
    /\ \A i \in 1..3 : IsRateLimited(calls[id].log[i])
    /\ IsVerdict(calls[id].log[4])
    /\ calls[id].result.kind = "value"
    /\ calls[id].result.value.quality = GOOD
    /\ calls[id].waits = <<2000, 4000, 8000>>

(* C2: a failure with status 503 is retried as a rate-limited one is: while
   retries remain, the attempt is followed by the next backoff wait of the
   schedule instead of resolving the call. *)
C2_OverloadRetried ==
  \A id \in DOMAIN calls :
    \A i \in 1..Len(calls[id].log) :
      (IsOverloaded(calls[id].log[i]) /\ i <= 3)
        => /\ Len(calls[id].waits) >= i
           /\ calls[id].waits[i] = Backoff(i)

(* C3: a frame in the store whose call failed with a transient error on the
   first attempt and on all 3 retries carries the degraded fallback; its
   analysis is not null. *)
C3_ExhaustedGetsFallback ==
  \A i \in DOMAIN frames :
    LET id == frames[i].id IN
    ( /\ id \in DOMAIN calls
      /\ calls[id].pc = "done"
      /\ Len(calls[id].log) = 4
      /\ \A k \in 1..4 : IsTransient(calls[id].log[k]) )
    => frames[i].analysis = DegradedFallback

(* C4: a parsable response without the field quality yields exactly the
   degraded fallback, and the call ends with that attempt. *)
C4_MissingQualityFallback ==
  \A id \in DOMAIN calls :
    \A i \in 1..Len(calls[id].log) :
      MissesQuality(calls[id].log[i])
        => /\ i = Len(calls[id].log)
           /\ calls[id].pc = "done"
           /\ calls[id].result.kind = "value"
           /\ calls[id].result.value = DegradedFallback

(* C5: a non-transient failure (no credentials, empty response, unparsable
   response, an error without status 429) ends the call with that attempt
   and no further wait, with exactly the degraded fallback; as the first
   attempt that is one attempt and zero waits. *)
C5_TerminalFallback ==
  \A id \in DOMAIN calls :
    LET c == calls[id] IN
    \A i \in 1..Len(c.log) :
      IsNonTransientFailure(c.log[i])
        => /\ i = Len(c.log)
           /\ Len(c.waits) = i - 1
           /\ c.pc = "done"
           /\ c.result.kind = "value"
           /\ c.result.value = DegradedFallback

C5_Witness ==
  \E id \in DOMAIN calls :
    /\ calls[id].pc = "done"
    /\ Len(calls[id].log) = 1
    /\ calls[id].log[1].kind = "error"
    /\ calls[id].log[1].error.code = 429
    /\ calls[id].waits = <<>>
    /\ InStore(id)
    /\ FrameOf(frames, id).analysis = DegradedFallback

(* C6: when processFrameAI writes a verdict into a frame, the frame is
   selected afterwards if and only if the verdict is the capability's own
   answer with quality Excellent; after a degraded fallback it is not. *)
C6_AutoSelectIffExcellent ==
  [][ \A id \in DOMAIN calls :
        ( /\ AnalysisCompletes(id)
          /\ calls'[id].result.kind = "value"
          /\ InStore(id) )
        => ( FrameOf(frames', id).isSelected
               <=> ( /\ IsVerdict(Last(calls'[id].log))
                     /\ Last(calls'[id].log).json.quality = "Excellent" ) ) ]_vars

C6_Witness ==
  \E i \in DOMAIN frames :
    LET id == frames[i].id IN
    /\ id \in DOMAIN calls
    /\ calls[id].pc = "done"
    /\ IsVerdict(Last(calls[id].log))
    /\ Last(calls[id].log).json.quality = "Excellent"
    /\ frames[i].analysis # NullAnalysis
    /\ frames[i].isSelected

(* C7: a verdict of quality Good or Fair leaves isSelected as it was just
   before the result was written. *)
C7_GoodFairKeepsSelection ==
  [][ \A id \in DOMAIN calls :
        ( /\ AnalysisCompletes(id)
          /\ calls'[id].result.kind = "value"
          /\ IsVerdict(Last(calls'[id].log))
          /\ Last(calls'[id].log).json.quality \in {"Good", "Fair"}
          /\ InStore(id) )
        => FrameOf(frames', id).isSelected = FrameOf(frames, id).isSelected ]_vars

(* C8: a frame in the store whose analysis call has completed, by a verdict,
   by the fallback or by rejection, has isProcessing false. *)
C8_CompletedNotProcessing ==
  \A i \in DOMAIN frames :
    (frames[i].id \in DOMAIN calls /\ calls[frames[i].id].pc = "done")
      => ~frames[i].isProcessing

C8_Witness ==
  \E i \in DOMAIN frames :
    /\ frames[i].id \in DOMAIN calls
    /\ calls[frames[i].id].pc = "done"
    /\ calls[frames[i].id].result.kind = "rejected"
    /\ ~frames[i].isProcessing

-----------------------------------------------------------------------------
(* C9: the frames one startExtraction run adds have the timestamps
   startTime + k * step, k = 0, 1, ..., for exactly the k with
   startTime + k * step < endTime and k < 50, where [startTime, endTime) is
   the window of the range in the duration and step = max(1, interval):
   all lie in the window, none is skipped, there are at most 50, none when
   the window is empty, and a 10 s video sampled every 5 s over the full
   range gives the frames at 0 and 5. *)

\* the windows in quarters of the duration
WindowFrom == [full |-> 0, first_half |-> 0, second_half |-> 2,
               q1 |-> 0, q2 |-> 1, q3 |-> 2, q4 |-> 3]
WindowTo == [full |-> 4, first_half |-> 2, second_half |-> 4,
             q1 |-> 1, q2 |-> 2, q3 |-> 3, q4 |-> 4]

ScanHasRun == scan.settings.range # NeverRun

RunFrom == (WindowFrom[scan.settings.range] * scan.duration) \div 4
RunTo == (WindowTo[scan.settings.range] * scan.duration) \div 4
RunStep ==
  (IF scan.settings.interval < 1 THEN 1 ELSE scan.settings.interval) * TicksPerSecond

\* the timestamps of the frames the run has added, in the order it added them
RunTimestamps ==
  [k \in 1..Len(scan.added) |-> FrameOf(frames, scan.added[k]).timestamp]

ExpectedCount ==
  Cardinality({k \in 0..49 : RunFrom + k * RunStep < RunTo})

C9_SampledTimestamps ==
  ScanHasRun =>
    /\ \A k \in 1..Len(RunTimestamps) :
         /\ RunTimestamps[k] = RunFrom + (k - 1) * RunStep
         /\ RunFrom <= RunTimestamps[k]
         /\ RunTimestamps[k] < RunTo
    /\ Len(RunTimestamps) <= 50
    /\ RunTo <= RunFrom => Len(RunTimestamps) = 0
    /\ scan.pc = "idle" =>
         /\ Len(RunTimestamps) = ExpectedCount
         /\ ~isExtracting
         /\ ( /\ scan.duration = 10 * TicksPerSecond
              /\ scan.settings = [range |-> "full", interval |-> 5] )
            => RunTimestamps = <<0, 5 * TicksPerSecond>>

C9_Witness ==
  /\ ScanHasRun
  /\ scan.pc = "idle"
  /\ Len(scan.added) = 50
  /\ RunFrom + 50 * RunStep < RunTo
  /\ RunTimestamps[50] = RunFrom + 49 * RunStep

-----------------------------------------------------------------------------
(* C10: when an enhancement call succeeds for a frame in the store, in the
   single path and in the batch path alike, the frame gets the returned
   image as enhancedUrl, each requested style appended to
   appliedEnhancements, isSelected true and, if it has an analysis, the
   quality Excellent. *)
EnhancementSucceeds(j) ==
  /\ EnhanceSettlesWith(j, Outcome("image", NoJson, NoError))
  /\ InStore(jobs[j].targets[jobs[j].idx].id)

C10_EnhanceSuccessEffect ==
  [][ \A j \in DOMAIN jobs :
        EnhancementSucceeds(j) =>
          LET id == jobs[j].targets[jobs[j].idx].id
              before == FrameOf(frames, id)
              after == FrameOf(frames', id)
          IN /\ after.enhancedUrl = EnhancedImage(id)
             /\ after.appliedEnhancements
                  = before.appliedEnhancements \o jobs[j].types
             /\ after.isSelected
             /\ before.analysis # NullAnalysis
                  => after.analysis.quality = "Excellent" ]_vars

-----------------------------------------------------------------------------
(* C11: when the enhancement call of a frame in the store fails, by an error
   of the capability or by a response without an image, the frame's
   enhancedUrl, appliedEnhancements and analysis are afterwards what they
   were before, and isEnhancing is false. *)
IsEnhancementFailure(o) == o.kind \in {"noimage", "error", "nokey"}

\* in this step the call of job j ends in the failure o
EnhancementFailsWith(j, o) ==
  /\ IsEnhancementFailure(o)
  /\ EnhanceSettlesWith(j, o)
  /\ jobs'[j].issued # jobs[j].issued \/ ~JobRunning(jobs'[j])
  /\ InStore(jobs[j].targets[jobs[j].idx].id)

C11_FailedEnhanceKeepsFrame ==
  [][ \A j \in DOMAIN jobs :
        \A o \in EnhanceOutcomes \cup {NoKeyOutcome} :
          EnhancementFailsWith(j, o) =>
            LET id == jobs[j].targets[jobs[j].idx].id
                before == FrameOf(frames, id)
                after == FrameOf(frames', id)
            IN /\ after.enhancedUrl = before.enhancedUrl
               /\ after.appliedEnhancements = before.appliedEnhancements
               /\ after.analysis = before.analysis
               /\ ~after.isEnhancing ]_vars

-----------------------------------------------------------------------------
(* C12: a batch targets the selected frames in store order; it issues one
   enhancement call for each target that has an analysis, in that order, and
   none for a target without one, which is passed over while the batch goes
   on; and the call for a target is issued only in the step in which the
   call for the previous one completes. *)
Ids(q) == [k \in DOMAIN q |-> q[k].id]

\* the targets of job up to position n that get a call
CalledUpTo(job, n) ==
  Ids(SelectSeq(SubSeq(job.targets, 1, IF n < Len(job.targets) THEN n
                                       ELSE Len(job.targets)),
                HasAnalysis))

\* in this step the call job j has in flight completes
EnhanceCallCompletes(j) ==
  \E o \in BatchEnhanceOutcomes :
    /\ EnhanceSettlesWith(j, o)
    /\ callWithRetry(jobs[j].call, o,
                     EnhanceAttempt(o, jobs[j].targets[jobs[j].idx].id),
                     NoImage).pc = "done"

C12_BatchSequential ==
  [][ /\ handleBatchEnhance(MainTypes) =>
           Ids(Last(jobs').targets) = Ids(SelectSeq(frames, IsSelected))
      /\ \A j \in DOMAIN jobs' :
           jobs'[j].kind = "batch" =>
             /\ jobs'[j].issued = CalledUpTo(jobs'[j], jobs'[j].idx)
             /\ \A a, b \in DOMAIN jobs'[j].issued :
                  jobs'[j].issued[a] = jobs'[j].issued[b] => a = b
             /\ (j \in DOMAIN jobs /\ jobs'[j].issued # jobs[j].issued)
                  => /\ jobs[j].call.pc = "attempt"
                     /\ EnhanceCallCompletes(j)
                     /\ jobs'[j].issued
                          = Append(jobs[j].issued, jobs'[j].targets[jobs'[j].idx].id) ]_vars

C12_Witness ==
  \E j \in DOMAIN jobs :
    /\ jobs[j].kind = "batch"
    /\ ~JobRunning(jobs[j])
    /\ Len(jobs[j].targets) = 3
    /\ ~HasAnalysis(jobs[j].targets[1])
    /\ HasAnalysis(jobs[j].targets[2])
    /\ HasAnalysis(jobs[j].targets[3])
    /\ jobs[j].issued = <<jobs[j].targets[2].id, jobs[j].targets[3].id>>
    /\ \A i \in DOMAIN frames : frames[i].enhancedUrl = EnhancedImage(frames[i].id)
                                   <=> i \in {2, 3}

-----------------------------------------------------------------------------
(* C13: Save version on a frame with an enhancedUrl puts exactly one new
   frame into the store, with an id no frame has or had, the source's
   enhancedUrl as imageUrl, the source's analysis with quality Excellent,
   isSelected true and no enhancedUrl, and leaves every frame that was in
   the store, the source included, as it was; on a frame without an
   enhancedUrl it leaves the store unchanged. *)

\* this step is handleSaveVersion on frames[i], which has an enhancedUrl
SavesVersionOf(i) ==
  /\ frames[i].enhancedUrl # NoImage
  /\ frames' = SaveVersion(frames, i, nextId)
  /\ nextId' = nextId + 1

C13_SaveVersion ==
  [][ \A i \in DOMAIN frames :
        /\ frames[i].enhancedUrl = NoImage
             => SaveVersion(frames, i, nextId) = frames
        /\ SavesVersionOf(i) =>
             /\ Len(frames') = Len(frames) + 1
             /\ \A k \in DOMAIN frames : frames'[k + 1] = frames[k]
             /\ frames'[1].id \notin FrameIds(frames)
             /\ frames'[1].id \notin DOMAIN calls
             /\ frames'[1].imageUrl = frames[i].enhancedUrl
             /\ frames'[1].timestamp = frames[i].timestamp
             /\ frames'[1].analysis
                  = (IF frames[i].analysis = NullAnalysis THEN NullAnalysis
                     ELSE [frames[i].analysis EXCEPT !.quality = "Excellent"])
             /\ frames'[1].isSelected
             /\ frames'[1].enhancedUrl = NoImage ]_vars

C13_Witness ==
  \E i, k \in DOMAIN frames :
    /\ i < k
    /\ frames[i].id > frames[k].id
    /\ frames[i].imageUrl = frames[k].enhancedUrl
    /\ frames[i].imageUrl.src = "ai"
    /\ frames[i].enhancedUrl = NoImage
    /\ frames[i].isSelected
    /\ frames[i].analysis # NullAnalysis
    /\ frames[i].analysis.quality = "Excellent"
    /\ ~frames[k].isSelected

-----------------------------------------------------------------------------
(* C14: once a frame has been discarded by a reset of the store, the
   resolution of an analysis or enhancement call that was in flight for it
   leaves the store as it is, so it modifies no frame of a later scan, and
   no discarded frame is ever in the store again. *)

\* the ids of frames that were in the store and are not any more
Discarded ==
  (DOMAIN calls \cup UNION {FrameIds(jobs[j].targets) : j \in DOMAIN jobs})
    \ FrameIds(frames)

C14_LateResultsIgnored ==
  [][ /\ \A id \in DOMAIN calls :
           \A o \in MainAnalysisOutcomes :
             (id \in Discarded /\ AnalysisSettlesWith(id, o)) => frames' = frames
      /\ \A j \in DOMAIN jobs :
           \A o \in MainEnhanceOutcomes :
             ( /\ JobRunning(jobs[j])
               /\ jobs[j].targets[jobs[j].idx].id \in Discarded
               /\ EnhanceSettlesWith(j, o) ) => frames' = frames
      /\ \A id \in Discarded : id \notin FrameIds(frames') ]_vars

C14_Witness ==
  /\ resets >= 1
  /\ frames # <<>>
  /\ \E id \in Discarded :
       /\ calls[id].pc = "done"
       /\ \E j \in DOMAIN jobs :
            /\ ~JobRunning(jobs[j])
            /\ jobs[j].targets[1].id = id
  /\ \A i \in DOMAIN frames :
       /\ frames[i].analysis = NullAnalysis
       /\ frames[i].isProcessing
       /\ ~frames[i].isEnhancing
       /\ frames[i].appliedEnhancements = <<>>

-----------------------------------------------------------------------------
(* C15: a stalled analysis or enhancement call for one frame blocks only
   that frame: sampling finishes, every other frame of the scan gets the
   result of its analysis call, and every other target of the same batch
   that has an analysis gets the result of its enhancement call. *)

\* the ids of the frames of the scan
ScanIds == 1..(MaxBatchDurationSec \div 3 + 1)
BatchJobs == 1..MaxBatchJobs

\* batch j is to call the capability for frame id
Awaits(j, id) ==
  /\ j \in DOMAIN jobs
  /\ \E k \in DOMAIN jobs[j].targets :
       jobs[j].targets[k].id = id /\ HasAnalysis(jobs[j].targets[k])

\* the call of batch j for frame id has completed
Served(j, id) ==
  /\ j \in DOMAIN jobs
  /\ \E k \in DOMAIN jobs[j].targets :
       jobs[j].targets[k].id = id /\ jobs[j].idx > k

\* frame id comes after a target of batch j whose call stalls
BehindStalled(j, id) ==
  /\ j \in DOMAIN jobs
  /\ \E k, m \in DOMAIN jobs[j].targets :
       /\ k < m
       /\ jobs[j].targets[k].id \in StalledEnhancement
       /\ HasAnalysis(jobs[j].targets[k])
       /\ jobs[j].targets[m].id = id

SamplingFinishes == (scan.pc = "seeking") ~> (scan.pc = "idle" /\ ~isExtracting)

OtherAnalysesComplete ==
  \A id \in ScanIds \ StalledAnalysis :
    (id \in DOMAIN calls)
      ~> (id \in DOMAIN calls /\ calls[id].pc = "done" /\ InStore(id)
          /\ ~FrameOf(frames, id).isProcessing)

C15_StallBlocksOnlyItsFrame ==
  /\ SamplingFinishes
  /\ OtherAnalysesComplete
  /\ \A j \in BatchJobs : \A id \in ScanIds \ StalledEnhancement :
       Awaits(j, id) ~> Served(j, id)

(* C15 as amended: a stalled analysis call blocks only its frame, and a
   stalled enhancement call of a batch blocks its frame and the targets of
   that batch after it, for which that batch issues no call; sampling, the
   other analysis calls and the batch's other targets are served. *)
C15_StallBlocksRestOfBatch ==
  /\ SamplingFinishes
  /\ OtherAnalysesComplete
  /\ \A j \in BatchJobs : \A id \in ScanIds \ StalledEnhancement :
       /\ (Awaits(j, id) /\ ~BehindStalled(j, id)) ~> Served(j, id)
       /\ []((Awaits(j, id) /\ BehindStalled(j, id))
               => /\ ~Served(j, id)
                  /\ \A k \in DOMAIN jobs[j].issued : jobs[j].issued[k] # id)

C15_Witness ==
  /\ scan.pc = "idle"
  /\ Len(frames) = 3
  /\ \A id \in ScanIds \ StalledAnalysis : calls[id].pc = "done"
  /\ \E id \in StalledAnalysis : calls[id].pc = "attempt"
  /\ \E j \in DOMAIN jobs :
       /\ Ids(jobs[j].targets) = <<1, 3>>
       /\ Served(j, 1) = FALSE
       /\ jobs[j].issued = <<1>>
       /\ jobs[j].call.pc = "attempt"
       /\ frames[3].isEnhancing

-----------------------------------------------------------------------------
(* The gallery filter *)

Upper == "ABCDEFGHIJKLMNOPQRSTUVWXYZ"
Lower == "abcdefghijklmnopqrstuvwxyz"

toLowerChar(c) ==
  IF \E k \in 1..Len(Upper) : SubSeq(Upper, k, k) = c
  THEN LET k == CHOOSE k \in 1..Len(Upper) : SubSeq(Upper, k, k) = c
       IN SubSeq(Lower, k, k)
  ELSE c

\* String.prototype.toLowerCase
RECURSIVE toLowerCase(_)
toLowerCase(s) ==
  IF s = "" THEN ""
  ELSE toLowerChar(SubSeq(s, 1, 1)) \o toLowerCase(SubSeq(s, 2, Len(s)))

\* s.replace(/_/g, " ")
RECURSIVE replaceUnderscores(_)
replaceUnderscores(s) ==
  IF s = "" THEN ""
  ELSE (IF SubSeq(s, 1, 1) = "_" THEN " " ELSE SubSeq(s, 1, 1))
         \o replaceUnderscores(SubSeq(s, 2, Len(s)))

\* s.includes(t)
includes(s, t) ==
  \E i \in 1..(Len(s) - Len(t) + 1) : SubSeq(s, i, i + Len(t) - 1) = t

\* a value that if (...) and || treat as present
Truthy(str) == str \notin {UndefStr, ""}

qualityOrder == (FAIR :> 1) @@ (GOOD :> 2) @@ (EXCELLENT :> 3) @@ (PENDING :> 0)

\* qualityOrder[q] < qualityOrder[min]; a key the table lacks yields undefined,
\* and a comparison with undefined is false
BelowMinQuality_FromFair(q, min) ==
  /\ q \in DOMAIN qualityOrder \ {PENDING}
  /\ min \in DOMAIN qualityOrder
  /\ qualityOrder[q] < qualityOrder[min]
BelowMinQuality(q, min) ==
  /\ q \in DOMAIN qualityOrder
  /\ min \in DOMAIN qualityOrder
  /\ qualityOrder[q] < qualityOrder[min]

\* [...(frame.analysis.tags || []), frame.analysis.subjectId?.replace(/_/g, " ") || ""]
frameTags(analysis) ==
  analysis.tags \o
    << IF Truthy(analysis.subjectId) /\ Truthy(replaceUnderscores(analysis.subjectId))
       THEN replaceUnderscores(analysis.subjectId) ELSE "" >>

\* ft.toLowerCase().includes(tag.toLowerCase())
TagMatches_CaseSensitive(ft, tag) == includes(ft, tag)
TagMatches(ft, tag) == includes(toLowerCase(ft), toLowerCase(tag))

\* filters.activeTags.some(tag => frameTags.some(ft => ...))
SomeTagMatches(analysis, activeTags) ==
  \E a \in DOMAIN activeTags :
    \E k \in DOMAIN frameTags(analysis) : TagMatches(frameTags(analysis)[k], activeTags[a])

\* the callback of frames.filter: TRUE when the gallery shows the frame
FrameShown_PendingFirst(frame, view, sub, extracting, f) ==
  IF frame.analysis = NullAnalysis /\ extracting THEN TRUE
  ELSE IF frame.analysis = NullAnalysis THEN FALSE
  ELSE IF view = "library" /\ ~frame.isSelected THEN FALSE
  ELSE IF sub = "enhanced" /\ Len(frame.appliedEnhancements) = 0 THEN FALSE
  ELSE IF sub = "original" /\ Len(frame.appliedEnhancements) # 0 THEN FALSE
  ELSE IF f.minQuality # "All" /\ BelowMinQuality(frame.analysis.quality, f.minQuality)
    THEN FALSE
  ELSE IF f.shotType # "All" /\ frame.analysis.shotType # f.shotType THEN FALSE
  ELSE IF Len(f.activeTags) > 0 /\ ~SomeTagMatches(frame.analysis, f.activeTags)
    THEN FALSE
  ELSE TRUE
FrameShown(frame, view, sub, extracting, f) ==
  IF view = "library" /\ ~frame.isSelected THEN FALSE
  ELSE IF sub = "enhanced" /\ Len(frame.appliedEnhancements) = 0 THEN FALSE
  ELSE IF sub = "original" /\ Len(frame.appliedEnhancements) # 0 THEN FALSE
  ELSE IF frame.analysis = NullAnalysis /\ extracting THEN TRUE
  ELSE IF frame.analysis = NullAnalysis THEN FALSE
  ELSE IF f.minQuality # "All" /\ BelowMinQuality(frame.analysis.quality, f.minQuality)
    THEN FALSE
  ELSE IF f.shotType # "All" /\ frame.analysis.shotType # f.shotType THEN FALSE
  ELSE IF Len(f.activeTags) > 0 /\ ~SomeTagMatches(frame.analysis, f.activeTags)
    THEN FALSE
  ELSE TRUE

Shown(i) == FrameShown(frames[i], libraryView, libraryFilter, isExtracting, filters)

filteredFrames == SelectSeq(frames, LAMBDA frame :
  FrameShown(frame, libraryView, libraryFilter, isExtracting, filters))

\* the tags one frame contributes to the chips, in insertion order
ChipsOf(frame) ==
  IF frame.analysis = NullAnalysis THEN <<>>
  ELSE frame.analysis.tags \o
         (IF Truthy(frame.analysis.subjectId)
          THEN <<replaceUnderscores(frame.analysis.subjectId)>> ELSE <<>>)

RECURSIVE AllTags(_)
AllTags(fs) == IF fs = <<>> THEN <<>> ELSE ChipsOf(Head(fs)) \o AllTags(Tail(fs))

\* insertion order of a Set: the first occurrence of each element
Distinct(q) == SelectSeq([i \in DOMAIN q |-> [v |-> q[i], first |-> \A k \in 1..(i - 1) : q[k] # q[i]]],
                         LAMBDA e : e.first)

MaxChips == 8

\* Array.from(allTags).slice(0, 8)
smartChips ==
  LET all == Distinct(AllTags(frames))
  IN [i \in 1..(IF Len(all) < MaxChips THEN Len(all) ELSE MaxChips) |-> all[i].v]

\* the View Library button
setLibraryView ==
  /\ videoUrl # "none"
  /\ libraryView' = IF libraryView = "all" THEN "library" ELSE "all"
  /\ UNCHANGED <<persistVars, libraryFilter, filters, exportVars, apiKey, videoUrl, video, scanSettings,
                 isExtracting, scan, frames, nextId, calls, jobs, resets>>

\* the All / Originals / Enhanced buttons
setLibraryFilter ==
  /\ videoUrl # "none"
  /\ \E v \in {"all", "original", "enhanced"} : libraryFilter' = v
  /\ UNCHANGED <<persistVars, libraryView, filters, exportVars, apiKey, videoUrl, video, scanSettings,
                 isExtracting, scan, frames, nextId, calls, jobs, resets>>

MinQualityOptions == {"All", GOOD, EXCELLENT}
ShotTypeOptions == {"All", CANDID, POSE}

\* the Quality select of the filter drawer
setMinQuality ==
  /\ videoUrl # "none"
  /\ \E q \in MinQualityOptions : filters' = [filters EXCEPT !.minQuality = q]
  /\ UNCHANGED <<persistVars, libraryView, libraryFilter, exportVars, apiKey, videoUrl, video,
                 scanSettings, isExtracting, scan, frames, nextId, calls, jobs, resets>>

\* the Type select of the filter drawer
setShotType ==
  /\ videoUrl # "none"
  /\ \E t \in ShotTypeOptions : filters' = [filters EXCEPT !.shotType = t]
  /\ UNCHANGED <<persistVars, libraryView, libraryFilter, exportVars, apiKey, videoUrl, video,
                 scanSettings, isExtracting, scan, frames, nextId, calls, jobs, resets>>

\* a click on one of the chips
toggleTagFilter ==
  /\ videoUrl # "none"
  /\ \E k \in DOMAIN smartChips :
       LET tag == smartChips[k]
           isActive == \E a \in DOMAIN filters.activeTags : filters.activeTags[a] = tag
       IN filters' = [filters EXCEPT !.activeTags =
            IF isActive THEN SelectSeq(@, LAMBDA t : t # tag) ELSE @ \o <<tag>>]
  /\ UNCHANGED <<persistVars, libraryView, libraryFilter, exportVars, apiKey, videoUrl, video,
                 scanSettings, isExtracting, scan, frames, nextId, calls, jobs, resets>>

\* a response whose tags differ from Json's in case, length and underscores
TagJson ==
  [quality |-> GOOD, qualityReason |-> "Usable", people |-> <<>>,
   shotType |-> POSE, tags |-> <<"", "beachfront">>, compositionScore |-> 6,
   technicalAdvice |-> "Crop tighter", subjectId |-> "red_hat"]

\* verdicts of every quality the filter's table knows, and tags of several shapes
FilterAnalysisOutcomes ==
  {Outcome("text", Json(q), NoError) : q \in {FAIR, EXCELLENT, PENDING}}
    \cup {Outcome("text", TagJson, NoError), Outcome("text", SparseJson, NoError)}

MaxActiveTags == 2

\* a scan under analysis while the user works the filter drawer
NextFilter ==
  \/ HandleFileChange({MaxAnalysisDurationSec * TicksPerSecond})
  \/ VideoLoadedMetadata
  \/ StartExtraction
  \/ SeekCompleted
  \/ AnalysisSettles(FilterAnalysisOutcomes)
  \/ setMinQuality
  \/ setShotType
  \/ (Len(filters.activeTags) < MaxActiveTags /\ toggleTagFilter)

SpecFilter == InitKeyed /\ [][NextFilter]_vars

-----------------------------------------------------------------------------
(* C16 *)

\* the frame's verdict replaced by q
WithQuality(frame, q) == [frame EXCEPT !.analysis.quality = q]

\* the filter's answer when the quality floor is taken away
PassesOtherPredicates(i) ==
  FrameShown(frames[i], libraryView, libraryFilter, isExtracting,
             [filters EXCEPT !.minQuality = "All"])

\* C16: the quality table orders Pending < Fair < Good < Excellent; with
\* minQuality = Good an analysed frame of quality Fair or Pending is never
\* shown and an analysed Excellent frame that passes the other predicates is
\* always shown; with minQuality = All the answer for a frame is the same
\* whatever its quality is.
C16_MinQuality ==
  /\ qualityOrder[PENDING] < qualityOrder[FAIR]
  /\ qualityOrder[FAIR] < qualityOrder[GOOD]
  /\ qualityOrder[GOOD] < qualityOrder[EXCELLENT]
  /\ \A i \in DOMAIN frames :
       frames[i].analysis # NullAnalysis =>
         /\ (filters.minQuality = GOOD /\ frames[i].analysis.quality \in {FAIR, PENDING})
              => ~Shown(i)
         /\ (filters.minQuality = GOOD /\ frames[i].analysis.quality = EXCELLENT
               /\ PassesOtherPredicates(i))
              => Shown(i)
         /\ filters.minQuality = "All" =>
              \A q \in {PENDING, FAIR, GOOD, EXCELLENT, UndefStr} :
                FrameShown(WithQuality(frames[i], q), libraryView, libraryFilter,
                           isExtracting, filters) = Shown(i)

\* Good+ is chosen; a Pending frame that passes everything else is hidden
\* while an Excellent one is shown
C16_Witness ==
  /\ filters.minQuality = GOOD
  /\ \E i, k \in DOMAIN frames :
       /\ frames[i].analysis # NullAnalysis
       /\ frames[i].analysis.quality = PENDING
       /\ PassesOtherPredicates(i)
       /\ ~Shown(i)
       /\ frames[k].analysis # NullAnalysis
       /\ frames[k].analysis.quality = EXCELLENT
       /\ Shown(k)

\* a scan under analysis and enhancement while the user switches the gallery's views
NextView ==
  \/ HandleFileChange({MaxAnalysisDurationSec * TicksPerSecond})
  \/ VideoLoadedMetadata
  \/ StartExtraction
  \/ SeekCompleted
  \/ AnalysisSettles(BatchAnalysisOutcomes)
  \/ toggleFrameSelection
  \/ handleEnhanceSelection(MainTypes)
  \/ EnhanceSettles(BatchEnhanceOutcomes)
  \/ setLibraryView
  \/ setLibraryFilter

SpecView == InitKeyed /\ [][NextView]_vars

-----------------------------------------------------------------------------
(* C17 *)

\* settings of the filter drawer, reachable or not
FilterSettings ==
  [minQuality : MinQualityOptions, shotType : ShotTypeOptions,
   activeTags : {<<>>, <<"Beach">>, <<"red hat", "">>}]

PassesLibraryView(i) == libraryView = "library" => frames[i].isSelected

PassesSubView(i) ==
  /\ libraryFilter = "enhanced" => Len(frames[i].appliedEnhancements) > 0
  /\ libraryFilter = "original" => Len(frames[i].appliedEnhancements) = 0

\* C17: whatever the quality, shot-type and tag filters are, an unselected frame
\* is never shown in library view, the enhanced sub-view shows only frames with
\* a non-empty appliedEnhancements and the original sub-view only frames with
\* an empty one, and a frame without analysis that passes the library view and
\* the sub-view is shown exactly when a scan is in progress.
C17_PredicateOrder ==
  \A i \in DOMAIN frames : \A f \in FilterSettings :
    LET shown == FrameShown(frames[i], libraryView, libraryFilter, isExtracting, f)
    IN /\ (libraryView = "library" /\ ~frames[i].isSelected) => ~shown
       /\ shown => PassesSubView(i)
       /\ (frames[i].analysis = NullAnalysis /\ PassesLibraryView(i) /\ PassesSubView(i))
            => (shown <=> isExtracting)

\* during a scan, library view hides an unselected placeholder that the full
\* view shows
C17_Witness ==
  /\ isExtracting
  /\ libraryView = "library"
  /\ \E i \in DOMAIN frames :
       /\ frames[i].analysis = NullAnalysis
       /\ ~frames[i].isSelected
       /\ PassesSubView(i)
       /\ ~Shown(i)
       /\ FrameShown(frames[i], "all", libraryFilter, isExtracting, filters)

-----------------------------------------------------------------------------
(* C18 *)

\* the same letter, in either case
SameLetter(a, b) ==
  \/ a = b
  \/ \E k \in 1..Len(Upper) :
       {a, b} = {SubSeq(Upper, k, k), SubSeq(Lower, k, k)}

\* t occurs in s at some offset, letter for letter up to case
CaseInsensitiveSubstring(t, s) ==
  \E off \in 0..(Len(s) - Len(t)) :
    \A j \in 1..Len(t) : SameLetter(SubSeq(t, j, j), SubSeq(s, off + j, off + j))

\* the frame's tags together with its subjectId, underscores replaced by spaces
SearchableTags(analysis) ==
  {analysis.tags[k] : k \in DOMAIN analysis.tags}
    \cup (IF analysis.subjectId = UndefStr THEN {}
          ELSE {replaceUnderscores(analysis.subjectId)})

\* the tag test of the filter, alone
PassesTagFilter(i) == SomeTagMatches(frames[i].analysis, filters.activeTags)

SomeActiveTagIn(i, searchable) ==
  \E a \in DOMAIN filters.activeTags :
    \E s \in searchable : CaseInsensitiveSubstring(filters.activeTags[a], s)

\* C18: with a non-empty activeTags, an analysed frame passes the tag filter
\* if and only if at least one active tag is a case-insensitive substring of
\* at least one of the frame's tags or of its subjectId with underscores
\* replaced by spaces.
C18_TagFilter ==
  \A i \in DOMAIN frames :
    (frames[i].analysis # NullAnalysis /\ Len(filters.activeTags) > 0) =>
      (PassesTagFilter(i) <=> SomeActiveTagIn(i, SearchableTags(frames[i].analysis)))

\* the same, with the empty string counted among the searchable tags of a
\* frame that has no subjectId
C18_TagFilterWithPlaceholder ==
  \A i \in DOMAIN frames :
    (frames[i].analysis # NullAnalysis /\ Len(filters.activeTags) > 0) =>
      (PassesTagFilter(i) <=>
         SomeActiveTagIn(i, SearchableTags(frames[i].analysis)
                              \cup (IF frames[i].analysis.subjectId = UndefStr
                                    THEN {""} ELSE {})))

\* the chip "red hat" is active and a frame whose subjectId is Man_In_Red_Hat
\* passes the tag filter
C18_Witness ==
  /\ filters.activeTags = <<"red hat">>
  /\ \E i \in DOMAIN frames :
       /\ frames[i].analysis # NullAnalysis
       /\ frames[i].analysis.subjectId = "Man_In_Red_Hat"
       /\ frames[i].analysis.tags = <<"Beach">>
       /\ PassesTagFilter(i)
       /\ Shown(i)

-----------------------------------------------------------------------------
(* Export *)

Digits == "0123456789"

Digit(d) == SubSeq(Digits, d + 1, d + 1)

\* the decimal digits of a natural number
RECURSIVE NatToString(_)
NatToString(n) == IF n < 10 THEN Digit(n) ELSE NatToString(n \div 10) \o Digit(n % 10)

\* (ticks / TicksPerSecond).toFixed(2): the nearest hundredth, the larger one
\* of two equally near
toFixed2(ticks) ==
  LET h == (200 * ticks + TicksPerSecond) \div (2 * TicksPerSecond)
  IN NatToString(h \div 100) \o "." \o Digit((h % 100) \div 10) \o Digit(h % 10)

\* a character that /[^a-z0-9]/gi leaves alone
IsAlphanumeric(c) == includes(Upper \o Lower \o Digits, c)

\* projectName.replace(/[^a-z0-9]/gi, '_').toLowerCase()
RECURSIVE Sanitized(_)
Sanitized(s) ==
  IF s = "" THEN ""
  ELSE (IF IsAlphanumeric(SubSeq(s, 1, 1)) THEN toLowerChar(SubSeq(s, 1, 1)) ELSE "_")
         \o Sanitized(SubSeq(s, 2, Len(s)))

safeName(name) == IF Sanitized(name) = "" THEN "frameperfect_export" ELSE Sanitized(name)

RECURSIVE trimStart(_)
trimStart(s) ==
  IF s # "" /\ SubSeq(s, 1, 1) = " " THEN trimStart(SubSeq(s, 2, Len(s))) ELSE s

RECURSIVE trimEnd(_)
trimEnd(s) ==
  IF s # "" /\ SubSeq(s, Len(s), Len(s)) = " " THEN trimEnd(SubSeq(s, 1, Len(s) - 1)) ELSE s

\* String.prototype.trim
trim(s) == trimEnd(trimStart(s))

\* frames.filter(f => f.isSelected)
keepers(fs) == SelectSeq(fs, LAMBDA f : f.isSelected)

\* f.analysis?.quality
QualityOf(frame) ==
  IF frame.analysis = NullAnalysis THEN UndefStr ELSE frame.analysis.quality

\* one element of the manifest
ManifestEntry(f) ==
  [id |-> f.id, timestamp |-> f.timestamp, quality |-> QualityOf(f),
   isEnhanced |-> f.enhancedUrl # NoImage]

manifest(fs) == [k \in DOMAIN keepers(fs) |-> ManifestEntry(keepers(fs)[k])]

\* frame.enhancedUrl || frame.imageUrl
imageData(frame) == IF frame.enhancedUrl # NoImage THEN frame.enhancedUrl ELSE frame.imageUrl

\* the data URL without its header
base64Data(frame) == [base64 |-> imageData(frame)]

\* `frame_${frame.timestamp.toFixed(2)}s_${frame.analysis?.quality || 'ungraded'}.png`
filename(frame) ==
  "frame_" \o toFixed2(frame.timestamp) \o "s_"
    \o (IF Truthy(QualityOf(frame)) THEN QualityOf(frame) ELSE "ungraded") \o ".png"

\* folder.file(name, data): a file of that name is replaced
FolderFile(files, name, data) ==
  [n \in DOMAIN files \cup {name} |-> IF n = name THEN data ELSE files[n]]

\* keepers.forEach((frame, index) => folder.file(filename, base64Data, ...))
RECURSIVE AddImages(_, _)
AddImages(files, ks) ==
  IF ks = <<>> THEN files
  ELSE AddImages(FolderFile(files, filename(Head(ks)), base64Data(Head(ks))), Tail(ks))

ManifestFile == "manifest.json"

\* the zip as it stands when generateAsync is called
exportProjectToZip(fs, name) ==
  [safeName |-> safeName(name),
   files |-> AddImages(FolderFile(<<>>, ManifestFile, [json |-> manifest(fs)]), keepers(fs)),
   downloaded |-> FALSE]

\* the names of the image files of a zip
ImageFiles(zip) == DOMAIN zip.files \ {ManifestFile}

ProjectNames == {"", "  ", " Trip 1", DefaultProjectName}

\* typing in the project name field
setProjectName ==
  /\ videoUrl # "none"
  /\ \E name \in ProjectNames : projectName' = name
  /\ UNCHANGED <<persistVars, viewVars, isExporting, archive, exportNotice, apiKey, videoUrl, video,
                 scanSettings, isExtracting, scan, frames, nextId, calls, jobs, resets>>

\* disabled={stats.keepers === 0 || isExporting}
ExportButtonDisabled_WhileExporting == isExporting
ExportButtonDisabled == Len(keepers(frames)) = 0 \/ isExporting

BlankNameNotice == "Please enter a project name."
ExportFailedNotice == "Export failed."

\* a click on Download Library, up to the await of generateAsync
handleExport ==
  /\ videoUrl # "none"
  /\ ~ExportButtonDisabled
  /\ IF trim(projectName) = ""
     THEN /\ exportNotice' = BlankNameNotice
          /\ UNCHANGED <<isExporting, archive>>
     ELSE /\ isExporting' = TRUE
          /\ archive' = exportProjectToZip(frames, projectName)
          /\ UNCHANGED exportNotice
  /\ UNCHANGED <<persistVars, viewVars, projectName, apiKey, videoUrl, video, scanSettings,
                 isExtracting, scan, frames, nextId, calls, jobs, resets>>

\* generateAsync settles: the download, or the catch; then the finally
ExportSettles ==
  /\ isExporting
  /\ \E generated \in BOOLEAN :
       IF generated
       THEN /\ archive' = [archive EXCEPT !.downloaded = TRUE]
            /\ UNCHANGED exportNotice
       ELSE /\ exportNotice' = ExportFailedNotice
            /\ UNCHANGED archive
  /\ isExporting' = FALSE
  /\ UNCHANGED <<persistVars, viewVars, projectName, apiKey, videoUrl, video, scanSettings,
                 isExtracting, scan, frames, nextId, calls, jobs, resets>>

\* a kept frame is enhanced, saved as a version and exported
NextExport ==
  \/ HandleFileChange({MaxMainDurationSec * TicksPerSecond})
  \/ VideoLoadedMetadata
  \/ StartExtraction
  \/ SeekCompleted
  \/ AnalysisSettles(BatchAnalysisOutcomes)
  \/ toggleFrameSelection
  \/ handleEnhanceSelection(MainTypes)
  \/ EnhanceSettles(BatchEnhanceOutcomes)
  \/ handleSaveVersion
  \/ setProjectName
  \/ handleExport
  \/ ExportSettles

SpecExport == InitKeyed /\ [][NextExport]_vars

-----------------------------------------------------------------------------
(* C19 *)

\* handleExport gets past its name check and builds the zip
ExportBuilds == ~isExporting /\ isExporting'

\* C19: when an export builds its zip from a store with N selected frames,
\* the manifest has exactly N entries, in keeper order, with isEnhanced true
\* exactly for the keepers that have an enhanced image, and the zip holds
\* exactly N image files, one per keeper, each under the name
\* frame_<timestamp with 2 decimals>s_<quality or "ungraded">.png and holding
\* that keeper's enhanced image if it has one, else its original.
C19_OneFilePerKeeper ==
  [][ExportBuilds =>
       LET ks == keepers(frames)
           entries == archive'.files[ManifestFile].json
       IN /\ Len(entries) = Len(ks)
          /\ \A k \in DOMAIN ks :
               /\ entries[k].id = ks[k].id
               /\ entries[k].isEnhanced <=> ks[k].enhancedUrl # NoImage
          /\ Cardinality(ImageFiles(archive')) = Len(ks)
          /\ \A k \in DOMAIN ks :
               /\ filename(ks[k]) \in ImageFiles(archive')
               /\ archive'.files[filename(ks[k])] = base64Data(ks[k])]_vars

\* a scan under analysis while the user picks keepers, names the project and
\* downloads the library
NextDownload ==
  \/ HandleFileChange({MaxAnalysisDurationSec * TicksPerSecond})
  \/ VideoLoadedMetadata
  \/ StartExtraction
  \/ SeekCompleted
  \/ AnalysisSettles(MainAnalysisOutcomes)
  \/ toggleFrameSelection
  \/ setProjectName
  \/ handleExport
  \/ ExportSettles

SpecDownload == InitKeyed /\ [][NextDownload]_vars

-----------------------------------------------------------------------------
(* C20 *)

\* empty, or nothing but spaces
IsBlank(s) == \A j \in 1..Len(s) : SubSeq(s, j, j) = " "

NoKeepers == \A i \in DOMAIN frames : ~frames[i].isSelected

\* a step of the export: a notice is raised, a zip is built or downloaded, or
\* isExporting changes
ExportStep == exportVars' # exportVars /\ projectName' = projectName

\* C20: while no export is in progress and the project name is empty or
\* whitespace-only, or the store has no keeper, no step builds or downloads a
\* zip or sets isExporting; and no step of the export changes the frame store.
C20_InvalidExportAborted ==
  [][/\ (~isExporting /\ (IsBlank(projectName) \/ NoKeepers))
          => (archive' = archive /\ ~isExporting')
     /\ ExportStep => frames' = frames]_vars

\* Download Library was clicked with a whitespace-only name and a keeper in
\* the store: the notice is up, nothing was built
C20_Witness ==
  /\ exportNotice = BlankNameNotice
  /\ projectName = "  "
  /\ ~NoKeepers
  /\ ~isExporting
  /\ archive = NoArchive

-----------------------------------------------------------------------------
(* Persistence: initLoad, and a reload of the page *)

MaxMounts == 2

\* project ? project.frames : []
loadProject == IF persisted.stored THEN persisted.frames ELSE <<>>

\* the callback of loadedFrames.map
sanitizedFrame_ScoreOr(f) ==
  [f EXCEPT
     !.analysis =
       IF @ = NullAnalysis THEN NullAnalysis
       ELSE [@ EXCEPT
               !.tags = IF @ = UndefList THEN <<>> ELSE @,
               !.people = IF @ = UndefList THEN <<>> ELSE @,
               !.technicalAdvice = IF Truthy(@) THEN @ ELSE "No advice available",
               !.compositionScore = IF @ \in {UndefNum, 0} THEN 5 ELSE @],
     !.appliedEnhancements = IF @ = UndefList THEN <<>> ELSE @]
sanitizedFrame(f) ==
  [f EXCEPT
     !.analysis =
       IF @ = NullAnalysis THEN NullAnalysis
       ELSE [@ EXCEPT
               !.tags = IF @ = UndefList THEN <<>> ELSE @,
               !.people = IF @ = UndefList THEN <<>> ELSE @,
               !.technicalAdvice = IF Truthy(@) THEN @ ELSE "No advice available",
               !.compositionScore = IF @ = UndefNum THEN 5 ELSE @],
     !.appliedEnhancements = IF @ = UndefList THEN <<>> ELSE @]

sanitizedFrames(loadedFrames) ==
  [i \in DOMAIN loadedFrames |-> sanitizedFrame(loadedFrames[i])]

\* db.get of loadProject runs
LoadReads ==
  /\ load.pc = "pending"
  /\ load' = [load EXCEPT !.pc = "read", !.frames = loadProject]
  /\ UNCHANGED <<persisted, viewVars, exportVars, apiKey, videoUrl, video, scanSettings,
                 isExtracting, scan, frames, nextId, calls, jobs, resets>>

\* initLoad resumes with what loadProject returned, and the effect on
\* [frames] saves the restored store
LoadResolves ==
  /\ load.pc = "read"
  /\ load' = [load EXCEPT !.pc = "done"]
  /\ IF Len(load.frames) > 0
     THEN /\ frames' = sanitizedFrames(load.frames)
          /\ videoUrl' = "restored"
          /\ SaveEffect
     ELSE UNCHANGED <<frames, videoUrl, persisted>>
  /\ UNCHANGED <<viewVars, exportVars, apiKey, video, scanSettings, isExtracting, scan,
                 nextId, calls, jobs, resets>>

\* loadProject rejects: the catch of initLoad
LoadFails ==
  /\ load.pc = "pending"
  /\ load' = [load EXCEPT !.pc = "done"]
  /\ UNCHANGED <<persisted, viewVars, exportVars, apiKey, videoUrl, video, scanSettings,
                 isExtracting, scan, frames, nextId, calls, jobs, resets>>

\* the page is reloaded: the component mounts afresh, calls and enhancement
\* invocations of the old page are gone, IndexedDB stays
Reload ==
  /\ load.mount < MaxMounts
  /\ load' = [LoadPending EXCEPT !.mount = load.mount + 1]
  /\ videoUrl' = "none"
  /\ video' = [duration |-> 0, metadata |-> FALSE]
  /\ scanSettings' = [range |-> "full", interval |-> 3]
  /\ isExtracting' = FALSE
  /\ scan' = IdleScan
  /\ frames' = <<>>
  /\ calls' = [id \in {} |-> NewCall(NullAnalysis)]
  /\ jobs' = <<>>
  /\ libraryView' = "all"
  /\ libraryFilter' = "all"
  /\ filters' = DefaultFilters
  /\ projectName' = DefaultProjectName
  /\ isExporting' = FALSE
  /\ archive' = NoArchive
  /\ exportNotice' = NoNotice
  /\ UNCHANGED <<persisted, apiKey, nextId, resets>>

\* a frame as an earlier build of the app stored it: optional fields absent
LegacyFrame ==
  [id |-> 0, timestamp |-> 0, imageUrl |-> CapturedImage(0),
   analysis |-> [quality |-> GOOD, qualityReason |-> "Usable", people |-> UndefList,
                 shotType |-> POSE, tags |-> UndefList, compositionScore |-> UndefNum,
                 technicalAdvice |-> UndefStr, subjectId |-> UndefStr],
   isSelected |-> TRUE, isProcessing |-> FALSE, isEnhancing |-> FALSE,
   enhancedUrl |-> NoImage, appliedEnhancements |-> UndefList]

\* what IndexedDB may hold when the page is opened
StoredProjects == {NoProject, Project(<<LegacyFrame>>)}

InitStored == InitApp /\ apiKey /\ persisted \in StoredProjects

\* one-frame scans with analysis and selection, across reloads of the page
NextPersist ==
  \/ LoadReads
  \/ LoadResolves
  \/ LoadFails
  \/ HandleFileChange({MaxMainDurationSec * TicksPerSecond})
  \/ VideoLoadedMetadata
  \/ StartExtraction
  \/ SeekCompleted
  \/ AnalysisSettles(MainAnalysisOutcomes)
  \/ toggleFrameSelection
  \/ NewScan
  \/ Reload

SpecPersist == InitStored /\ [][NextPersist]_vars

-----------------------------------------------------------------------------
(* C21 *)

FrameFields ==
  {"id", "timestamp", "imageUrl", "isSelected", "isProcessing", "isEnhancing", "enhancedUrl"}

AnalysisFields == {"quality", "qualityReason", "shotType", "subjectId"}

\* v, or d when v is the mark of an absent field
OrDefault(v, absent, d) == IF v = absent THEN d ELSE v

\* the frame b is the stored frame a with its absent optional fields defaulted
RestoredFrom(b, a) ==
  /\ \A fld \in FrameFields : b[fld] = a[fld]
  /\ b.appliedEnhancements = OrDefault(a.appliedEnhancements, UndefList, <<>>)
  /\ (a.analysis = NullAnalysis) <=> (b.analysis = NullAnalysis)
  /\ a.analysis # NullAnalysis =>
       /\ \A fld \in AnalysisFields : b.analysis[fld] = a.analysis[fld]
       /\ b.analysis.tags = OrDefault(a.analysis.tags, UndefList, <<>>)
       /\ b.analysis.people = OrDefault(a.analysis.people, UndefList, <<>>)
       /\ b.analysis.technicalAdvice =
            OrDefault(a.analysis.technicalAdvice, UndefStr, "No advice available")
       /\ b.analysis.compositionScore = OrDefault(a.analysis.compositionScore, UndefNum, 5)

\* initLoad puts a stored collection into the store
LoadApplies == load.pc = "read" /\ load'.pc = "done" /\ Len(load.frames) > 0

\* C21: a change of a non-empty store is saved as it is; loadProject reads
\* what was saved; and the load puts into the store, in the same order, every
\* stored frame with every present field as stored and the absent optional
\* fields defaulted: tags, people and appliedEnhancements to the empty list,
\* technicalAdvice to "No advice available", compositionScore to 5 (a stored
\* compositionScore of 0 stays 0).
C21_RoundTrip ==
  [][/\ (frames' # frames /\ frames' # <<>>) => persisted' = Project(frames')
     /\ (load.pc = "pending" /\ load'.pc = "read" /\ persisted.stored)
          => load'.frames = persisted.frames
     /\ LoadApplies =>
          /\ Len(frames') = Len(load.frames)
          /\ \A i \in DOMAIN frames' : RestoredFrom(frames'[i], load.frames[i])]_vars

\* a frame whose analysis failed (compositionScore 0) was saved, the page
\* reloaded and the frame restored with its score still 0
C21_Witness ==
  /\ load.mount > 1
  /\ load.pc = "done"
  /\ videoUrl = "restored"
  /\ \E i \in DOMAIN frames :
       /\ i \in DOMAIN load.frames
       /\ frames[i].id > 0
       /\ load.frames[i].analysis # NullAnalysis
       /\ load.frames[i].analysis.compositionScore = 0
       /\ frames[i] = load.frames[i]

-----------------------------------------------------------------------------
(* C22 *)

AnalysisOutstanding(id) == id \in DOMAIN calls /\ calls[id].pc # "done"

\* some running invocation has its call for id in flight or still ahead
EnhancementAhead(id) ==
  \E j \in DOMAIN jobs :
    /\ JobRunning(jobs[j])
    /\ \E k \in jobs[j].idx..Len(jobs[j].targets) : jobs[j].targets[k].id = id

\* C22: a frame's isProcessing is true only while its analysis call is
\* outstanding, and its isEnhancing is true only while an enhancement call for
\* it is outstanding or still to come in a running batch; so once a batch has
\* finished, none of its targets has isEnhancing true.
C22_FlagsOnlyWhileOutstanding ==
  \A i \in DOMAIN frames :
    /\ frames[i].isProcessing => AnalysisOutstanding(frames[i].id)
    /\ frames[i].isEnhancing => EnhancementAhead(frames[i].id)

\* the outcomes of an enhancement attempt: an image, none, or a rate limit
\* that is retried
RetriedEnhanceOutcomes ==
  {Outcome("image", NoJson, NoError), Outcome("noimage", NoJson, NoError),
   Outcome("error", NoJson, RateLimited)}

\* a one-frame scan whose frame is analysed, toggled, enhanced one by one and
\* in batches, with calls that succeed, return nothing or are rejected, and
\* saved as versions
NextEnhance ==
  \/ HandleFileChange({MaxMainDurationSec * TicksPerSecond})
  \/ VideoLoadedMetadata
  \/ StartExtraction
  \/ SeekCompleted
  \/ AnalysisSettles(MainAnalysisOutcomes)
  \/ toggleFrameSelection
  \/ (Len(jobs) < MaxBatchJobs /\ handleEnhanceSelection(MainTypes))
  \/ (Len(jobs) < MaxBatchJobs /\ handleBatchEnhance(MainTypes))
  \/ EnhanceSettles(RetriedEnhanceOutcomes)
  \/ EnhanceBackoffElapsed
  \/ handleSaveVersion

SpecEnhance == InitKeyed /\ [][NextEnhance]_vars

-----------------------------------------------------------------------------
(* C23 *)

\* C23: a frame that has an enhancedUrl has at least one entry in
\* appliedEnhancements.
C23_EnhancedHasStyle ==
  \A i \in DOMAIN frames :
    frames[i].enhancedUrl # NoImage => Len(frames[i].appliedEnhancements) > 0

\* a frame got an enhanced image and a version of it was saved: the frame
\* has the image and the style, the version has the style and no enhancedUrl
C23_Witness ==
  \E i, k \in DOMAIN frames :
    /\ frames[i].enhancedUrl # NoImage
    /\ Len(frames[i].appliedEnhancements) > 0
    /\ frames[k].imageUrl = frames[i].enhancedUrl
    /\ frames[k].enhancedUrl = NoImage
    /\ Len(frames[k].appliedEnhancements) > 0
    /\ frames[k].imageUrl = frames[i].enhancedUrl
    /\ frames[k].enhancedUrl = NoImage
    /\ Len(frames[k].appliedEnhancements) > 0

-----------------------------------------------------------------------------
(* C24 *)

\* C24: a frame whose analysis has completed (isProcessing is false) is not
\* selected with analysis = null.
C24_NoSelectedWithoutVerdict ==
  \A i \in DOMAIN frames :
    ~frames[i].isProcessing => ~(frames[i].isSelected /\ frames[i].analysis = NullAnalysis)

-----------------------------------------------------------------------------
(* C25 *)

\* ids are handed out in increasing order, so of two frames the one with the
\* larger id was added later
AddedLater(a, b) == a.id > b.id

\* C25: the store iterates in insertion order: a frame added later never
\* precedes a frame added earlier.
C25_InsertionOrder ==
  \A i, k \in DOMAIN frames : i < k => ~AddedLater(frames[i], frames[k])

\* sampling, with the metadata event and the seeks never withheld for good
SpecScanFair ==
  Init /\ [][NextScan]_vars /\ WF_vars(VideoLoadedMetadata) /\ WF_vars(SeekCompleted)

-----------------------------------------------------------------------------
(* C26 *)

\* C26: provided the metadata event and every seek arrive, a run of
\* startExtraction that has set isExtracting to true eventually sets it back
\* to false.
C26_ExtractionEnds == isExtracting ~> ~isExtracting

-----------------------------------------------------------------------------
(* C27 *)

\* the invocations whose enhancement request is in flight
RequestsInFlight == {j \in DOMAIN jobs : JobRunning(jobs[j]) /\ jobs[j].call.pc = "attempt"}

\* C27: at most one enhancement request is outstanding at any time.
C27_OneRequestAtATime == Cardinality(RequestsInFlight) <= 1

-----------------------------------------------------------------------------
(* C28 *)

\* initLoad finishes, one way or the other
LoadEnds == load.pc # "done" /\ load'.pc = "done"

\* C28: when the load started at mount finishes after the user has picked a
\* video file, it leaves the store's frames and the video source as they are.
C28_LateLoadIgnored ==
  [][(LoadEnds /\ videoUrl = "blob") => (frames' = frames /\ videoUrl' = "blob")]_vars

-----------------------------------------------------------------------------
(* C29 *)

\* some frame of the store is flagged in flight with no call outstanding for it
FlaggedWithoutCall ==
  \E i \in DOMAIN frames :
    \/ frames[i].isProcessing /\ ~AnalysisOutstanding(frames[i].id)
    \/ frames[i].isEnhancing /\ ~EnhancementAhead(frames[i].id)

\* C29: no frame restored from persistence is flagged in flight with no call
\* outstanding for it: after a load has put the stored frames in the store, no
\* frame has isProcessing set without an outstanding analysis call or
\* isEnhancing set without an enhancement call in flight or still ahead.
C29_RestoredNotInFlight == [][LoadApplies => ~FlaggedWithoutCall']_vars

-----------------------------------------------------------------------------
(* C30 *)

\* the fields an update never writes
IdentityFields == {"id", "timestamp", "imageUrl"}

\* the fields an analysis result, an enhancement result of a batch, one of a
\* single enhancement, and a selection toggle may write
AnalysisWrites == {"analysis", "isProcessing", "isSelected"}
BatchWrites == {"isEnhancing", "enhancedUrl", "analysis", "appliedEnhancements"}
SingleWrites == BatchWrites \cup {"isSelected"}
ToggleWrites == {"isSelected"}

\* the step is an update for id that may write the fields in writes: the
\* store keeps its frames and their order, every frame with another id is
\* left as it was, and the frame with that id keeps, from the value the store
\* held before the step, every field not in writes
UpdateFor(id, writes) ==
  /\ DOMAIN frames' = DOMAIN frames
  /\ \A i \in DOMAIN frames :
       IF frames[i].id = id
       THEN /\ DOMAIN frames'[i] = DOMAIN frames[i]
            /\ \A k \in DOMAIN frames[i] \ (writes \ IdentityFields) :
                 frames'[i][k] = frames[i][k]
       ELSE frames'[i] = frames[i]

\* what is written over a written field builds on the value the store held:
\* applied styles are appended to the current list, and an analysis is the
\* current one up to its quality
BuildsOnCurrent ==
  \A i \in DOMAIN frames :
    /\ Len(frames'[i].appliedEnhancements) >= Len(frames[i].appliedEnhancements)
    /\ SubSeq(frames'[i].appliedEnhancements, 1, Len(frames[i].appliedEnhancements))
         = frames[i].appliedEnhancements
    /\ (frames[i].analysis = NullAnalysis) = (frames'[i].analysis = NullAnalysis)
    /\ frames[i].analysis # NullAnalysis =>
         \A k \in DOMAIN frames[i].analysis \ {"quality"} :
           frames'[i].analysis[k] = frames[i].analysis[k]

\* an attempt of the analysis call of frame id settles in this step
AnalysisResultStep(id) ==
  /\ id \in DOMAIN calls /\ id \in DOMAIN calls'
  /\ calls[id].pc = "attempt"
  /\ calls'[id] # calls[id]

\* an attempt of the enhancement call of invocation j settles in this step
EnhanceResultStep(j) ==
  /\ j \in DOMAIN jobs /\ j \in DOMAIN jobs'
  /\ JobRunning(jobs[j])
  /\ jobs[j].call.pc = "attempt"
  /\ jobs'[j] # jobs[j]

\* the step changes the store and nothing else but its saved copy: a toggle
ToggleStep ==
  /\ frames' # frames
  /\ UNCHANGED <<calls, jobs, nextId, load, videoUrl, isExtracting, scan, resets>>

\* C30: an analysis result, an enhancement result and a selection toggle are
\* each an update for one frame id applied to the value the store holds when
\* it arrives: no frame with a different id changes, no frame is added or
\* removed, no id, timestamp or imageUrl changes, and the frame updated keeps
\* every field the update does not write.
C30_UpdateById ==
  [][/\ \A id \in DOMAIN calls : AnalysisResultStep(id) => UpdateFor(id, AnalysisWrites)
     /\ \A j \in DOMAIN jobs :
          EnhanceResultStep(j) =>
            /\ UpdateFor(jobs[j].targets[jobs[j].idx].id,
                         IF jobs[j].kind = "single" THEN SingleWrites ELSE BatchWrites)
            /\ BuildsOnCurrent
     /\ ToggleStep =>
          \E i \in DOMAIN frames :
            /\ UpdateFor(frames[i].id, ToggleWrites)
            /\ frames'[i].isSelected = ~frames[i].isSelected]_vars

\* frame A, whose analysis call is still in flight, holds a selection that
\* only a toggle can have set, while frame B's analysis result and then its
\* enhancement result have been written and B has been toggled off
C30_Witness ==
  \E a, b \in DOMAIN frames :
    /\ frames[a].id # frames[b].id
    /\ frames[a].isProcessing /\ frames[a].isSelected
    /\ frames[a].analysis = NullAnalysis
    /\ calls[frames[a].id].pc = "attempt"
    /\ calls[frames[b].id].pc = "done"
    /\ frames[b].analysis # NullAnalysis
    /\ frames[b].enhancedUrl # NoImage
    /\ ~frames[b].isSelected

====
